---- MODULE Spec2Model ----
(***************************************************************************)
(* Feather-Json: a token-sequence JSON document.  The model follows        *)
(* src/src/lexer.rs (lex), src/src/token.rs (Token) and src/src/json.rs    *)
(* (JsonValue, Json, JsonBuilder).                                         *)
(*                                                                         *)
(* Text is a sequence of one-character strings.  A lexeme is Option<String>*)
(* in the code: None is the empty tuple, Some(s) is the one-element tuple  *)
(* holding the character sequence s.  Indices into the token vector are    *)
(* the code's 0-based indices; At(tokens, i) reads tokens[i].              *)
(***************************************************************************)
EXTENDS Integers, Sequences, FiniteSets, TLC

VARIABLES phase, tokens, ret, overflow_checks, wellformed, lexable

vars == <<phase, tokens, ret, overflow_checks, wellformed, lexable>>

(***************************************************************************)
(* token.rs                                                                *)
(***************************************************************************)
TokenType ==
    {"OpeningBrace", "ClosingBrace", "LeftBracket", "RightBracket",
     "Key", "Assigner", "Value", "Separator"}

None == <<>>

Some(s) == <<s>>

unwrap(opt) == opt[1]

Token_new(lexeme, token_type) == [lexeme |-> Some(lexeme), token_type |-> token_type]

Token_no_lexeme(token_type) == [lexeme |-> None, token_type |-> token_type]

At(v, i) == v[i + 1]

(***************************************************************************)
(* lexer.rs                                                                *)
(***************************************************************************)
handle_closing_brace(buf, lexeme) ==
    [buf |-> Append(IF lexeme # <<>> THEN Append(buf, Token_new(lexeme, "Value")) ELSE buf,
                    Token_no_lexeme("ClosingBrace")),
     lexeme |-> <<>>]

handle_right_bracket(buf, lexeme) ==
    [buf |-> Append(IF lexeme # <<>> THEN Append(buf, Token_new(lexeme, "Value")) ELSE buf,
                    Token_no_lexeme("RightBracket")),
     lexeme |-> <<>>]

handle_assigner(buf, lexeme) ==
    [buf |-> Append(Append(buf, Token_new(lexeme, "Key")), Token_no_lexeme("Assigner")),
     lexeme |-> <<>>]

handle_separator(buf, lexeme) ==
    [buf |-> Append(IF Len(lexeme) > 0 THEN Append(buf, Token_new(lexeme, "Value")) ELSE buf,
                    Token_no_lexeme("Separator")),
     lexeme |-> <<>>]

\* The lexer of the earlier revisions: every space is dropped.
handle_space_always_dropped(lexeme) == lexeme

handle_space(lexeme) ==
    IF Len(lexeme) # 0 /\ lexeme[1] = "\"" THEN Append(lexeme, " ") ELSE lexeme

lex_step(st, ch) ==
    CASE ch = "{" -> [buf |-> Append(st.buf, Token_no_lexeme("OpeningBrace")), lexeme |-> st.lexeme]
      [] ch = "}" -> handle_closing_brace(st.buf, st.lexeme)
      [] ch = "[" -> [buf |-> Append(st.buf, Token_no_lexeme("LeftBracket")), lexeme |-> st.lexeme]
      [] ch = "]" -> handle_right_bracket(st.buf, st.lexeme)
      [] ch = ":" -> handle_assigner(st.buf, st.lexeme)
      [] ch = "," -> handle_separator(st.buf, st.lexeme)
      [] ch = " " -> [buf |-> st.buf, lexeme |-> handle_space(st.lexeme)]
      [] ch \in {"\n", "\r", "\t"} -> st
      [] OTHER -> [buf |-> st.buf, lexeme |-> Append(st.lexeme, ch)]

RECURSIVE lex_loop(_, _, _)
lex_loop(data, i, st) ==
    IF i > Len(data) THEN st.buf
    ELSE lex_loop(data, i + 1, lex_step(st, data[i]))

lex(data) == lex_loop(data, 1, [buf |-> <<>>, lexeme |-> <<>>])

(***************************************************************************)
(* Results: Ok(v), Err(e) as in JsonResult, and Panic for an abort (index  *)
(* or slice out of range, unwrap of None, todo!(), arithmetic overflow in  *)
(* a build with overflow checks).                                          *)
(***************************************************************************)
Ok(v) == [tag |-> "Ok", v |-> v]

Err(e) == [tag |-> "Err", e |-> e]

Panic == [tag |-> "Panic"]

IsOk(r) == r.tag = "Ok"

IsErr(r, e) == r.tag = "Err" /\ r.e = e

(***************************************************************************)
(* json.rs: JsonValue                                                      *)
(***************************************************************************)
Digits == {"0", "1", "2", "3", "4", "5", "6", "7", "8", "9"}

DigitVal(ch) ==
    CASE ch = "0" -> 0 [] ch = "1" -> 1 [] ch = "2" -> 2 [] ch = "3" -> 3
      [] ch = "4" -> 4 [] ch = "5" -> 5 [] ch = "6" -> 6 [] ch = "7" -> 7
      [] ch = "8" -> 8 [] ch = "9" -> 9

DigitChar(d) == <<"0", "1", "2", "3", "4", "5", "6", "7", "8", "9">>[d + 1]

I32_MAX == 2147483647

I32_MIN == -I32_MAX - 1

JsonInt(n) == [kind |-> "Int", v |-> n]

JsonBool(b) == [kind |-> "Bool", v |-> b]

JsonString(s) == [kind |-> "String", v |-> s]

JsonFloat(neg, cls, m, e) == [kind |-> "Float", v |-> [neg |-> neg, cls |-> cls, m |-> m, e |-> e]]

JsonArray(items) == [kind |-> "Array", v |-> items]

\* str::parse::<i32>: an optional sign, then at least one digit and only
\* digits; a value outside the i32 range is an error.
RECURSIVE i32_accumulate(_, _, _, _)
i32_accumulate(s, i, acc, neg) ==
    IF i > Len(s) THEN Some(acc)
    ELSE IF s[i] \notin Digits THEN None
    ELSE LET d == DigitVal(s[i]) IN
         IF neg
         THEN IF acc < -(I32_MAX \div 10) \/ (acc = -(I32_MAX \div 10) /\ d > 8)
              THEN None
              ELSE i32_accumulate(s, i + 1, acc * 10 - d, neg)
         ELSE IF acc > I32_MAX \div 10 \/ (acc = I32_MAX \div 10 /\ d > 7)
              THEN None
              ELSE i32_accumulate(s, i + 1, acc * 10 + d, neg)

parse_i32(s) ==
    IF Len(s) = 0 THEN None
    ELSE IF s[1] \in {"+", "-"}
         THEN IF Len(s) = 1 THEN None ELSE i32_accumulate(s, 2, 0, s[1] = "-")
         ELSE i32_accumulate(s, 1, 0, FALSE)

\* The index after the longest run of digits of s that starts at i.
RECURSIVE scan_digits(_, _)
scan_digits(s, i) ==
    IF i <= Len(s) /\ s[i] \in Digits THEN scan_digits(s, i + 1) ELSE i

\* The number the digits of s at positions i..j-1 spell.
RECURSIVE digits_value(_, _, _, _)
digits_value(s, i, j, acc) ==
    IF i >= j THEN acc ELSE digits_value(s, i + 1, j, acc * 10 + DigitVal(s[i]))

\* m * 10^e with the trailing zeros of m moved into e; zero is m = 0, e = 0.
RECURSIVE float_normal(_, _)
float_normal(m, e) ==
    IF m = 0 THEN [m |-> 0, e |-> 0]
    ELSE IF m % 10 = 0 THEN float_normal(m \div 10, e + 1)
    ELSE [m |-> m, e |-> e]

Lower(ch) ==
    CASE ch = "I" -> "i" [] ch = "N" -> "n" [] ch = "F" -> "f" [] ch = "A" -> "a"
      [] ch = "T" -> "t" [] ch = "Y" -> "y" [] OTHER -> ch

\* str::parse::<f32>: an optional sign, then either a decimal number (digits
\* with an optional '.', at least one digit, an optional exponent with at
\* least one digit) or inf, infinity or nan in any case.  The value is kept as
\* the decimal it spells (sign, mantissa, power of ten), without f32 rounding.
parse_f32(s) ==
    LET i0 == IF Len(s) > 0 /\ s[1] \in {"+", "-"} THEN 2 ELSE 1
        neg == Len(s) > 0 /\ s[1] = "-"
        rest == [k \in 1..(Len(s) - i0 + 1) |-> Lower(s[k + i0 - 1])]
        i1 == scan_digits(s, i0)
        dot == i1 <= Len(s) /\ s[i1] = "."
        i2 == IF dot THEN scan_digits(s, i1 + 1) ELSE i1
        nfrac == IF dot THEN i2 - i1 - 1 ELSE 0
        ndigits == (i1 - i0) + nfrac
        hasexp == i2 <= Len(s) /\ s[i2] \in {"e", "E"}
        j == IF i2 + 1 <= Len(s) /\ s[i2 + 1] \in {"+", "-"} THEN i2 + 2 ELSE i2 + 1
        eneg == i2 + 1 <= Len(s) /\ s[i2 + 1] = "-"
        k == scan_digits(s, j)
        last == IF hasexp THEN k ELSE i2
        expo == IF hasexp THEN (IF eneg THEN -1 ELSE 1) * digits_value(s, j, k, 0) ELSE 0
        mant == digits_value(s, i1 + 1, i2, digits_value(s, i0, i1, 0))
        nrm == float_normal(mant, expo - nfrac)
    IN  IF Len(s) < i0 THEN None
        ELSE IF rest \in {<<"i", "n", "f">>, <<"i", "n", "f", "i", "n", "i", "t", "y">>}
        THEN Some(JsonFloat(neg, "inf", 0, 0))
        ELSE IF rest = <<"n", "a", "n">> THEN Some(JsonFloat(neg, "nan", 0, 0))
        ELSE IF ndigits = 0 \/ (hasexp /\ k = j) \/ last # Len(s) + 1 THEN None
        ELSE Some(JsonFloat(neg, "num", nrm.m, nrm.e))

true_text == <<"t", "r", "u", "e">>

false_text == <<"f", "a", "l", "s", "e">>

parse(value) ==
    IF value = true_text THEN JsonBool(TRUE)
    ELSE IF value = false_text THEN JsonBool(FALSE)
    ELSE IF parse_i32(value) # None THEN JsonInt(unwrap(parse_i32(value)))
    ELSE IF parse_f32(value) # None THEN unwrap(parse_f32(value))
    ELSE JsonString(value)

\* i32::to_string and the digits of a natural number.
RECURSIVE nat_to_string(_)
nat_to_string(n) ==
    IF n < 10 THEN <<DigitChar(n)>>
    ELSE Append(nat_to_string(n \div 10), DigitChar(n % 10))

i32_to_string(n) == IF n < 0 THEN <<"-">> \o nat_to_string(-n) ELSE nat_to_string(n)

RECURSIVE zeros(_)
zeros(n) == IF n <= 0 THEN <<>> ELSE <<"0">> \o zeros(n - 1)

\* f32's Display: plain decimal notation, never an exponent.
f32_to_string(f) ==
    LET ds == nat_to_string(f.m)
        padded == zeros(1 - f.e - Len(ds)) \o ds
        cut == Len(padded) + f.e
        sign == IF f.neg THEN <<"-">> ELSE <<>>
    IN  CASE f.cls = "nan" -> <<"N", "a", "N">>
          [] f.cls = "inf" -> sign \o <<"i", "n", "f">>
          [] f.e >= 0 -> sign \o ds \o zeros(f.e)
          [] OTHER -> sign \o SubSeq(padded, 1, cut) \o <<".">> \o SubSeq(padded, cut + 1, Len(padded))

to_string_force(value) ==
    CASE value.kind = "String" -> Ok(value.v)
      [] value.kind = "Array" -> Panic
      [] value.kind = "Int" -> Ok(i32_to_string(value.v))
      [] value.kind = "Float" -> Ok(f32_to_string(value.v))
      [] value.kind = "Bool" -> Ok(IF value.v THEN true_text ELSE false_text)

\* impl From<&str> for JsonValue
from_str(value) == JsonString(<<"\"">> \o value \o <<"\"">>)

\* #[derive(PartialEq)] on JsonValue: same variant and equal payloads; a NaN
\* float equals nothing and the two zeros are equal.
JsonValue_eq(a, b) ==
    /\ a.kind = b.kind
    /\ IF a.kind = "Float"
       THEN /\ a.v.cls # "nan" /\ b.v.cls # "nan"
            /\ a.v.cls = b.v.cls /\ a.v.m = b.v.m /\ a.v.e = b.v.e
            /\ (a.v.neg = b.v.neg \/ (a.v.cls = "num" /\ a.v.m = 0))
       ELSE a.v = b.v

(***************************************************************************)
(* json.rs: Json                                                           *)
(*                                                                         *)
(* The nesting counters are usize.  With overflow checks (a debug build)   *)
(* `0 - 1` panics; without them (a release build) it wraps to 2^64 - 1.    *)
(* 2^64 is beyond TLC's integers, so a wrapped counter is kept as the      *)
(* representative of its residue class nearest zero: -1 stands for         *)
(* 2^64 - 1.  Equality with a small count is the same on either, and a     *)
(* negative counter used as a repeat count stands for a count above        *)
(* isize::MAX, for which String::extend panics (capacity overflow).        *)
(***************************************************************************)
\* update_nested_level without the ClosingBrace arm.
update_nested_level_never_closes(buf, current_token, checked) ==
    IF current_token.token_type = "OpeningBrace" THEN Ok(buf + 1) ELSE Ok(buf)

update_nested_level(buf, current_token, checked) ==
    CASE current_token.token_type = "OpeningBrace" -> Ok(buf + 1)
      [] current_token.token_type = "ClosingBrace" ->
            IF buf = 0 /\ checked THEN Panic ELSE Ok(buf - 1)
      [] OTHER -> Ok(buf)

update_nested_level_include_brackets(buf, current_token, checked) ==
    CASE current_token.token_type \in {"OpeningBrace", "LeftBracket"} -> Ok(buf + 1)
      [] current_token.token_type \in {"ClosingBrace", "RightBracket"} ->
            IF buf = 0 /\ checked THEN Panic ELSE Ok(buf - 1)
      [] OTHER -> Ok(buf)

\* &key_lexeme[1..key_lexeme.len() - 1]: the slice panics when the lexeme is
\* shorter than two characters (len - 1 underflows or the range is reversed).
dequote(key_lexeme) ==
    IF Len(key_lexeme) < 2 THEN Panic
    ELSE Ok(SubSeq(key_lexeme, 2, Len(key_lexeme) - 1))

\* The scan of find_key_token_index from token i on.  `matched` lists the
\* indices of the Key tokens matched so far, one per path segment.
RECURSIVE find_key_loop(_, _, _, _, _, _, _)
find_key_loop(toks, keys, i, key_found, nested_level, matched, checked) ==
    IF i >= Len(toks) THEN [res |-> Err("InvalidPath"), matched |-> matched]
    ELSE
    LET token == At(toks, i)
        level == IF i # 0 /\ i # Len(toks) - 1
                 THEN update_nested_level(nested_level, token, checked)
                 ELSE Ok(nested_level)
    IN  IF ~IsOk(level) THEN [res |-> Panic, matched |-> matched]
        ELSE IF token.token_type = "Key" /\ level.v = key_found
        THEN IF token.lexeme = None THEN [res |-> Panic, matched |-> matched]
             ELSE LET name == dequote(unwrap(token.lexeme)) IN
                  IF ~IsOk(name) THEN [res |-> Panic, matched |-> matched]
                  ELSE IF name.v = keys[key_found + 1]
                  THEN IF key_found + 1 = Len(keys)
                       THEN [res |-> Ok(i), matched |-> Append(matched, i)]
                       ELSE find_key_loop(toks, keys, i + 1, key_found + 1, level.v,
                                          Append(matched, i), checked)
                  ELSE find_key_loop(toks, keys, i + 1, key_found, level.v, matched, checked)
        ELSE find_key_loop(toks, keys, i + 1, key_found, level.v, matched, checked)

find_key_scan(toks, keys, checked) ==
    IF keys = <<>> THEN [res |-> Err("NoPathProvided"), matched |-> <<>>]
    ELSE find_key_loop(toks, keys, 0, 0, 0, <<>>, checked)

find_key_token_index(toks, keys, checked) == find_key_scan(toks, keys, checked).res

get(toks, keys, checked) ==
    LET found == find_key_token_index(toks, keys, checked) IN
    IF ~IsOk(found) THEN found
    ELSE IF found.v + 2 >= Len(toks) THEN Err("InvalidJson")
    ELSE LET value_token == At(toks, found.v + 2) IN
         IF value_token.token_type = "OpeningBrace" THEN Err("InvalidPath")
         ELSE IF value_token.lexeme = None THEN Panic
         ELSE Ok(parse(unwrap(value_token.lexeme)))

\* is_key_value_an_object looking at the Assigner, one token early.
is_key_value_an_object_early(toks, key_index) ==
    IF key_index + 1 >= Len(toks) THEN Err("InvalidJson")
    ELSE Ok(At(toks, key_index + 1).token_type # "OpeningBrace")

is_key_value_an_object(toks, key_index) ==
    IF key_index + 2 >= Len(toks) THEN Err("InvalidJson")
    ELSE Ok(At(toks, key_index + 2).token_type = "OpeningBrace")

\* Vec::splice(at..at, run): panics when at is beyond the vector's length.
splice(toks, at, run) == SubSeq(toks, 1, at) \o run \o SubSeq(toks, at + 1, Len(toks))

\* insert_tokens with the root's index and the nested index off by one.
insert_index_before_brace(toks, keys, checked) ==
    LET found == find_key_token_index(toks, keys, checked) IN
    CASE IsOk(found) ->
            LET obj == IF found.v + 2 >= Len(toks) THEN Err("InvalidJson")
                       ELSE Ok(At(toks, found.v + 2).token_type = "OpeningBrace") IN
            IF ~IsOk(obj) THEN obj
            ELSE IF obj.v THEN Ok(found.v + 2)
            ELSE Err("InsertCantInsertIntoValue")
      [] IsErr(found, "NoPathProvided") -> Ok(0)
      [] OTHER -> found

\* The index insert_tokens splices at, or the error it returns before it
\* changes anything.
insert_index(toks, keys, checked) ==
    LET found == find_key_token_index(toks, keys, checked) IN
    CASE IsOk(found) ->
            LET obj == is_key_value_an_object(toks, found.v) IN
            IF ~IsOk(obj) THEN obj
            ELSE IF obj.v THEN Ok(found.v + 3)
            ELSE Err("InsertCantInsertIntoValue")
      [] IsErr(found, "NoPathProvided") -> Ok(1)
      [] OTHER -> found

\* The separator repair that adds a Separator whatever token follows the run.
repair_separator_always(spliced, next) ==
    IF next >= Len(spliced) THEN [res |-> Err("InvalidJson"), tokens |-> spliced]
    ELSE [res |-> Ok(<<>>),
          tokens |-> SubSeq(spliced, 1, next) \o <<Token_no_lexeme("Separator")>>
                       \o SubSeq(spliced, next + 1, Len(spliced))]

\* The separator repair of insert_tokens: `next` is the index right after the
\* spliced run.
repair_separator(spliced, next) ==
    IF next >= Len(spliced) THEN [res |-> Err("InvalidJson"), tokens |-> spliced]
    ELSE IF At(spliced, next).token_type = "ClosingBrace"
    THEN [res |-> Ok(<<>>), tokens |-> spliced]
    ELSE [res |-> Ok(<<>>),
          tokens |-> splice(spliced, next, <<Token_no_lexeme("Separator")>>)]

\* insert_tokens: the result and the token vector it leaves behind.
insert_tokens(toks, keys, run, end_with_sep, checked) ==
    LET insert_at == insert_index(toks, keys, checked) IN
    IF ~IsOk(insert_at) THEN [res |-> insert_at, tokens |-> toks]
    ELSE IF insert_at.v > Len(toks) THEN [res |-> Panic, tokens |-> toks]
    ELSE
    LET spliced == splice(toks, insert_at.v, run) IN
    IF ~end_with_sep THEN [res |-> Ok(<<>>), tokens |-> spliced]
    ELSE repair_separator(spliced, insert_at.v + Len(run))

quoted(key) == <<"\"">> \o key \o <<"\"">>

insert_value(toks, keys, key, value, checked) ==
    LET value_as_string == to_string_force(value) IN
    IF ~IsOk(value_as_string) THEN [res |-> Panic, tokens |-> toks]
    ELSE insert_tokens(toks, keys,
                       <<Token_new(quoted(key), "Key"),
                         Token_no_lexeme("Assigner"),
                         Token_new(value_as_string.v, "Value")>>,
                       TRUE, checked)

insert_object(toks, keys, key, checked) ==
    insert_tokens(toks, keys,
                  <<Token_new(quoted(key), "Key"),
                    Token_no_lexeme("Assigner"),
                    Token_no_lexeme("OpeningBrace"),
                    Token_no_lexeme("ClosingBrace")>>,
                  TRUE, checked)

token_text(token) ==
    CASE token.token_type = "OpeningBrace" -> <<"{">>
      [] token.token_type = "ClosingBrace" -> <<"}">>
      [] token.token_type = "LeftBracket" -> <<"[">>
      [] token.token_type = "RightBracket" -> <<"]">>
      [] token.token_type = "Key" -> unwrap(token.lexeme)
      [] token.token_type = "Value" -> unwrap(token.lexeme)
      [] token.token_type = "Assigner" -> <<":">>
      [] token.token_type = "Separator" -> <<",">>

RECURSIVE to_string_loop(_, _, _)
to_string_loop(toks, i, buffer) ==
    IF i >= Len(toks) THEN buffer
    ELSE to_string_loop(toks, i + 1, buffer \o token_text(At(toks, i)))

to_string(toks) == to_string_loop(toks, 0, <<>>)

\* std::iter::repeat('\t').take(n) pushed onto a String.
RECURSIVE tabs(_)
tabs(n) == IF n <= 0 THEN <<>> ELSE <<"\t">> \o tabs(n - 1)

format_handle_close_bracket(toks, buf, i, nested_level, bracket) ==
    IF nested_level < 0 THEN Panic
    ELSE LET indented == buf \o tabs(nested_level) IN
         IF i + 1 < Len(toks)
         THEN IF At(toks, i + 1).token_type = "Separator"
              THEN Ok(Append(indented, bracket))
              ELSE Ok(indented \o <<bracket, "\n">>)
         ELSE IF nested_level = 0
              THEN Ok(indented \o <<bracket, "\n">>)
              ELSE Err("InvalidJson")

format_handle_left_bracket(toks, buf, i, nested_level) ==
    IF i = 0 THEN Panic
    ELSE IF At(toks, i - 1).token_type # "Assigner"
    THEN IF nested_level - 1 < 0 THEN Panic
         ELSE Ok(buf \o tabs(nested_level - 1) \o <<"[", "\n">>)
    ELSE Ok(buf \o <<"[", "\n">>)

\* format_handle_key with a space written after the key.
format_handle_key_space_after(toks, buf, i, nested_level) ==
    IF nested_level < 0 \/ At(toks, i).lexeme = None THEN Panic
    ELSE Ok(buf \o tabs(nested_level) \o unwrap(At(toks, i).lexeme) \o <<" ">>)

format_handle_key(toks, buf, i, nested_level) ==
    IF nested_level < 0 \/ At(toks, i).lexeme = None THEN Panic
    ELSE Ok(buf \o tabs(nested_level) \o unwrap(At(toks, i).lexeme))

\* format_handle_value with the line always ended, whatever token follows.
format_handle_value_always_newline(toks, buf, i, nested_level) ==
    IF At(toks, i).lexeme = None THEN Panic
    ELSE Ok(buf \o unwrap(At(toks, i).lexeme) \o <<"\n">>)

format_handle_value(toks, buf, i, nested_level) ==
    LET at_line_start == buf # <<>> /\ buf[Len(buf)] = "\n" IN
    IF at_line_start /\ nested_level < 0 THEN Panic
    ELSE IF At(toks, i).lexeme = None THEN Panic
    ELSE IF i + 1 >= Len(toks) THEN Panic
    ELSE LET indented == IF at_line_start THEN buf \o tabs(nested_level) ELSE buf
             written == indented \o unwrap(At(toks, i).lexeme)
         IN  IF At(toks, i + 1).token_type # "Separator"
             THEN Ok(Append(written, "\n"))
             ELSE Ok(written)

RECURSIVE to_string_format_loop(_, _, _, _, _)
to_string_format_loop(toks, i, buffer, nested_level, checked) ==
    IF i >= Len(toks) THEN Ok(buffer)
    ELSE
    LET token == At(toks, i)
        level == update_nested_level_include_brackets(nested_level, token, checked)
    IN  IF ~IsOk(level) THEN Panic
        ELSE
        LET step ==
              CASE token.token_type = "OpeningBrace" -> Ok(buffer \o <<"{", "\n">>)
                [] token.token_type = "ClosingBrace" ->
                      format_handle_close_bracket(toks, buffer, i, level.v, "}")
                [] token.token_type = "LeftBracket" ->
                      format_handle_left_bracket(toks, buffer, i, level.v)
                [] token.token_type = "RightBracket" ->
                      format_handle_close_bracket(toks, buffer, i, level.v, "]")
                [] token.token_type = "Key" -> format_handle_key(toks, buffer, i, level.v)
                [] token.token_type = "Value" -> format_handle_value(toks, buffer, i, level.v)
                [] token.token_type = "Assigner" -> Ok(buffer \o <<":", " ">>)
                [] token.token_type = "Separator" -> Ok(buffer \o <<",", "\n">>)
        IN  IF ~IsOk(step) THEN step
            ELSE to_string_format_loop(toks, i + 1, step.v, level.v, checked)

to_string_format(toks, checked) == to_string_format_loop(toks, 0, <<>>, 0, checked)

(***************************************************************************)
(* json.rs: JsonBuilder                                                    *)
(***************************************************************************)
JsonBuilder_new == <<Token_no_lexeme("OpeningBrace")>>

add_separator_if_needed(toks) ==
    IF toks # <<>> /\ toks[Len(toks)].token_type \in {"Value", "ClosingBrace"}
    THEN Append(toks, Token_no_lexeme("Separator"))
    ELSE toks

object(toks, name) ==
    add_separator_if_needed(toks)
        \o <<Token_new(quoted(name), "Key"),
             Token_no_lexeme("Assigner"),
             Token_no_lexeme("OpeningBrace")>>

\* value(): into() then to_string_force(), which panics on an Array.
value(toks, key, v) ==
    LET text == to_string_force(v) IN
    IF ~IsOk(text) THEN Panic
    ELSE Ok(add_separator_if_needed(toks)
              \o <<Token_new(quoted(key), "Key"),
                   Token_no_lexeme("Assigner"),
                   Token_new(text.v, "Value")>>)

object_end(toks) == Append(toks, Token_no_lexeme("ClosingBrace"))

build(toks) == Append(toks, Token_no_lexeme("ClosingBrace"))

(***************************************************************************)
(* Inputs.  The well-formed texts are the documents the testable           *)
(* properties name, plus an array-valued one; the other texts are every    *)
(* string over Alphabet up to MaxTextLen characters, well formed or not.   *)
(***************************************************************************)
Text_empty ==
    <<"{", "}">>

Text_scalar ==
    <<"{", "\"", "x", "\"", ":", "1", "}">>

Text_nested_same ==
    <<"{", "\"", "a", "\"", ":", "{", "\"", "a", "\"", ":", "1", "}", "}">>

Text_hello ==
    <<"{", "\"", "x", "\"", ":", "\"", "h", "e", "l", "l", "o", " ", "w", "o", "r", "l", "d", "\"", "}">>

Text_pretty ==
    <<"{", "\"", "a", "\"", ":", "1", ",", "\"", "b", "\"", ":", "{", "\"", "c", "\"", ":", "2", "}", "}">>

Text_siblings ==
    <<"{", "\"", "a", "\"", ":", "{", "\"", "x", "\"", ":", "1", "}", ",", "\"", "b", "\"", ":", "{", "\"", "c", "\"", ":", "2", "}", "}">>

Text_array ==
    <<"{", "\"", "a", "\"", ":", "[", "1", ",", "2", "]", "}">>

WellFormedTexts ==
    {Text_empty, Text_scalar, Text_nested_same, Text_hello, Text_pretty,
     Text_siblings, Text_array}

MaxTextLen == 3

MaxTokens == 10

MaxBuilderCalls == 3

Alphabet == {"{", "}", ":", " ", "\"", "a"}

ShortTexts == UNION {[1..n -> Alphabet] : n \in 0..MaxTextLen}

Texts == WellFormedTexts \cup ShortTexts

Name(text) == text

Paths ==
    {<<>>, <<Name(<<"x">>)>>, <<Name(<<"a">>)>>, <<Name(<<"a">>), Name(<<"a">>)>>,
     <<Name(<<"a">>), Name(<<"c">>)>>}

\* The container paths handed to insert_value and insert_object.
InsertPaths == {<<>>, <<Name(<<"x">>)>>, <<Name(<<"a">>)>>}

KeyNames == {Name(<<"x">>)}

\* The payloads differ in type, so the values are listed, not collected in a set.
ValueList ==
    <<JsonInt(42), JsonBool(TRUE), JsonString(<<"a", " ", "b">>),
      from_str(<<"a", " ", "b">>), JsonArray(<<>>)>>

Values == 1..Len(ValueList)

BuilderNames == {Name(<<"a">>)}

BuilderValues == {1, 3, 5}

(***************************************************************************)
(* History the properties speak of (not program state):                    *)
(*   wellformed - the document began as a well-formed JSON object text or  *)
(*                a builder with balanced object/object_end calls, and     *)
(*                every insert call since returned Ok;                     *)
(*   lexable   -  every lexeme given to the builder or to an insert so far *)
(*                is one the lexer reads back unchanged, and every insert  *)
(*                returned Ok.                                             *)
(***************************************************************************)
Structural == {"{", "}", "[", "]", ":", ","}

Dropped == {"\n", "\r", "\t"}

\* A value text the lexer reads back as one Value token with the same text:
\* no structural or dropped character, and spaces only after an opening quote.
LexableValue(text) ==
    /\ \A i \in 1..Len(text) : text[i] \notin Structural \cup Dropped
    /\ (\E i \in 1..Len(text) : text[i] = " ") => text[1] = "\""

\* A key name with no structural character and no whitespace.
LexableKey(name) ==
    \A i \in 1..Len(name) : name[i] \notin Structural \cup Dropped \cup {" "}

\* Every prefix of the builder's tokens has more OpeningBraces than
\* ClosingBraces: the object_end calls so far are matched by object calls.
RECURSIVE brace_depths(_, _, _)
brace_depths(toks, i, depth) ==
    IF i > Len(toks) THEN <<>>
    ELSE LET d == depth + (IF toks[i].token_type = "OpeningBrace" THEN 1
                           ELSE IF toks[i].token_type = "ClosingBrace" THEN -1 ELSE 0)
         IN  <<d>> \o brace_depths(toks, i + 1, d)

BuilderBalanced(toks) ==
    LET ds == brace_depths(toks, 1, 0) IN
    /\ \A i \in 1..Len(ds) : ds[i] >= 1
    /\ ds[Len(ds)] = 1

\* Each builder call pushes exactly one Key or one ClosingBrace.
BuilderCalls(toks) ==
    Cardinality({i \in 1..Len(toks) : toks[i].token_type \in {"Key", "ClosingBrace"}})

NoCall ==
    [op |-> "none", keys |-> <<>>, key |-> <<>>, value |-> JsonBool(FALSE),
     res |-> Ok(<<>>), before |-> <<>>]

Call(op, keys, key, v, res, before) ==
    [op |-> op, keys |-> keys, key |-> key, value |-> v, res |-> res, before |-> before]

Init ==
    /\ overflow_checks \in BOOLEAN
    /\ ret = NoCall
    /\ \/ /\ phase = "builder"
          /\ tokens = JsonBuilder_new
          /\ wellformed = TRUE
          /\ lexable = TRUE
       \/ \E text \in WellFormedTexts :
            /\ phase = "json"
            /\ tokens = lex(text)
            /\ wellformed = TRUE
            /\ lexable = TRUE

\* Json::from_string on every short text, well formed or not.
InitLex ==
    /\ overflow_checks \in BOOLEAN
    /\ ret = NoCall
    /\ \E text \in Texts :
         /\ phase = "json"
         /\ tokens = lex(text)
         /\ wellformed = (text \in WellFormedTexts)
         /\ lexable = TRUE

\* JsonBuilder::object
BuilderObject ==
    /\ phase = "builder" /\ ret.op = "none"
    /\ BuilderCalls(tokens) < MaxBuilderCalls
    /\ \E name \in BuilderNames :
         /\ tokens' = object(tokens, name)
         /\ lexable' = (lexable /\ LexableKey(name))
    /\ UNCHANGED <<phase, ret, overflow_checks, wellformed>>

\* JsonBuilder::value; a panic ends the program.
BuilderValue ==
    /\ phase = "builder" /\ ret.op = "none"
    /\ BuilderCalls(tokens) < MaxBuilderCalls
    /\ \E key \in BuilderNames, n \in BuilderValues :
         LET v == ValueList[n]
             r == value(tokens, key, v)
         IN
         /\ tokens' = IF IsOk(r) THEN r.v ELSE tokens
         /\ phase' = IF IsOk(r) THEN phase ELSE "panicked"
         /\ ret' = IF IsOk(r) THEN ret ELSE Call("value", <<>>, key, v, Panic, tokens)
         /\ lexable' = (lexable /\ IsOk(r) /\ LexableKey(key)
                          /\ LexableValue(to_string_force(v).v))
    /\ UNCHANGED <<overflow_checks, wellformed>>

\* JsonBuilder::object_end
BuilderObjectEnd ==
    /\ phase = "builder" /\ ret.op = "none"
    /\ BuilderCalls(tokens) < MaxBuilderCalls
    /\ tokens' = object_end(tokens)
    /\ UNCHANGED <<phase, ret, overflow_checks, wellformed, lexable>>

\* JsonBuilder::build
Build ==
    /\ phase = "builder" /\ ret.op = "none"
    /\ tokens' = build(tokens)
    /\ phase' = "json"
    /\ wellformed' = BuilderBalanced(tokens)
    /\ UNCHANGED <<ret, overflow_checks, lexable>>

\* Json::get
Get ==
    /\ phase = "json" /\ ret.op = "none"
    /\ \E keys \in Paths :
         ret' = Call("get", keys, <<>>, JsonBool(FALSE),
                     get(tokens, keys, overflow_checks), tokens)
    /\ UNCHANGED <<phase, tokens, overflow_checks, wellformed, lexable>>

\* Json::insert_value
InsertValue ==
    /\ phase = "json" /\ ret.op = "none"
    /\ Len(tokens) + 4 <= MaxTokens
    /\ \E keys \in InsertPaths, key \in KeyNames, n \in Values :
         LET v == ValueList[n]
             r == insert_value(tokens, keys, key, v, overflow_checks)
         IN
         /\ tokens' = r.tokens
         /\ ret' = Call("insert_value", keys, key, v, r.res, tokens)
         /\ wellformed' = (wellformed /\ IsOk(r.res))
         /\ lexable' = (lexable /\ IsOk(r.res) /\ LexableKey(key)
                          /\ LexableValue(to_string_force(v).v))
    /\ UNCHANGED <<phase, overflow_checks>>

\* Json::insert_object
InsertObject ==
    /\ phase = "json" /\ ret.op = "none"
    /\ Len(tokens) + 5 <= MaxTokens
    /\ \E keys \in InsertPaths, key \in KeyNames :
         LET r == insert_object(tokens, keys, key, overflow_checks) IN
         /\ tokens' = r.tokens
         /\ ret' = Call("insert_object", keys, key, JsonBool(FALSE), r.res, tokens)
         /\ wellformed' = (wellformed /\ IsOk(r.res))
         /\ lexable' = (lexable /\ IsOk(r.res) /\ LexableKey(key))
    /\ UNCHANGED <<phase, overflow_checks>>

\* Json::to_string
ToStringCompact ==
    /\ phase = "json" /\ ret.op = "none"
    /\ ret' = Call("to_string", <<>>, <<>>, JsonBool(FALSE), Ok(to_string(tokens)), tokens)
    /\ UNCHANGED <<phase, tokens, overflow_checks, wellformed, lexable>>

\* Json::to_string_format
ToStringFormat ==
    /\ phase = "json" /\ ret.op = "none"
    /\ ret' = Call("to_string_format", <<>>, <<>>, JsonBool(FALSE),
                   to_string_format(tokens, overflow_checks), tokens)
    /\ UNCHANGED <<phase, tokens, overflow_checks, wellformed, lexable>>

\* Json::from_string(&json.to_string()): the document is replaced by the one
\* lexed from its own compact text.
Reload ==
    /\ phase = "json" /\ ret.op = "none"
    /\ tokens' = lex(to_string(tokens))
    /\ ret' = Call("reload", <<>>, <<>>, JsonBool(FALSE), Ok(to_string(tokens)), tokens)
    /\ wellformed' = (wellformed /\ tokens' = tokens)
    /\ lexable' = TRUE
    /\ UNCHANGED <<phase, overflow_checks>>

\* The caller is done with the returned value.  A panic is final.
Return ==
    /\ ret.op # "none" /\ ret.res.tag # "Panic"
    /\ ret' = NoCall
    /\ UNCHANGED <<phase, tokens, overflow_checks, wellformed, lexable>>

Next ==
    \/ BuilderObject
    \/ BuilderValue
    \/ BuilderObjectEnd
    \/ Build
    \/ Get
    \/ InsertValue
    \/ InsertObject
    \/ ToStringCompact
    \/ ToStringFormat
    \/ Reload
    \/ Return

Spec == Init /\ [][Next]_vars

\* Every way a document is made: the builder, the well-formed texts and every
\* short text.
SpecLex == (Init \/ InitLex) /\ [][Next]_vars

(***************************************************************************)
(* Properties                                                              *)
(***************************************************************************)
RoundTrips(toks) == to_string(lex(to_string(toks))) = to_string(toks)

InsertOps == {"insert_value", "insert_object"}

HasValueLexeme(toks, text) ==
    \E i \in 1..Len(toks) : toks[i] = Token_new(text, "Value")

X == Name(<<"x">>)

A == Name(<<"a">>)

\* C2: after insert_value(path, k, v) returns Ok on a well-formed document,
\* with v an Int or a Bool, get(path ++ [k]) returns v; and after
\* insert_value([], "x", Int(42)) on the document lexed from {} the compact
\* text is {"x":42}.
C2_InsertThenGet ==
    (/\ phase = "json" /\ wellformed
     /\ ret.op = "insert_value" /\ IsOk(ret.res)
     /\ ret.value.kind \in {"Int", "Bool"})
    => LET got == get(tokens, Append(ret.keys, ret.key), overflow_checks) IN
       /\ IsOk(got)
       /\ JsonValue_eq(got.v, ret.value)
       /\ (/\ ret.before = lex(Text_empty) /\ ret.keys = <<>>
           /\ ret.key = X /\ JsonValue_eq(ret.value, JsonInt(42)))
          => to_string(tokens) = <<"{", "\"", "x", "\"", ":", "4", "2", "}">>

\* An Int was inserted into a nested object of a well-formed document.
C2_Witness ==
    /\ phase = "json" /\ wellformed
    /\ ret.op = "insert_value" /\ IsOk(ret.res)
    /\ ret.value.kind = "Int" /\ ret.keys # <<>>

\* The nesting depth of token i: OpeningBraces minus ClosingBraces among the
\* tokens up to i, the first and the last token of the document not counted.
Depth(toks, i) ==
    LET counted == {j \in 1..i : j # Len(toks) - 1}
    IN  Cardinality({j \in counted : At(toks, j).token_type = "OpeningBrace"})
          - Cardinality({j \in counted : At(toks, j).token_type = "ClosingBrace"})

\* C3: the resolver matches path segment n only against a Key token at
\* nesting depth n whose lexeme without its first and last character (the
\* quotes) is the segment; on
\* {"a":{"a":1}} get(["a","a"]) returns Int(1), found at token 4, and
\* get(["a"]) fails with InvalidPath.
C3_DepthGating ==
    /\ ret.op = "get" =>
         LET matched == find_key_scan(ret.before, ret.keys, overflow_checks).matched IN
         \A n \in 1..Len(matched) :
           /\ At(ret.before, matched[n]).token_type = "Key"
           /\ Depth(ret.before, matched[n]) = n - 1
           /\ LET lexeme == unwrap(At(ret.before, matched[n]).lexeme) IN
              /\ Len(lexeme) >= 2
              /\ SubSeq(lexeme, 2, Len(lexeme) - 1) = ret.keys[n]
    /\ (ret.op = "get" /\ ret.before = lex(Text_nested_same)) =>
         /\ ret.keys = <<A, A>> =>
              /\ find_key_token_index(ret.before, ret.keys, overflow_checks) = Ok(4)
              /\ IsOk(ret.res) /\ JsonValue_eq(ret.res.v, JsonInt(1))
         /\ ret.keys = <<A>> => ret.res = Err("InvalidPath")

\* get(["a","a"]) on {"a":{"a":1}} has returned.
C3_Witness ==
    /\ ret.op = "get" /\ ret.keys = <<A, A>>
    /\ ret.before = lex(Text_nested_same)
    /\ IsOk(ret.res)

\* The path of the last insert call resolved to a key whose value token
\* exists and is not an OpeningBrace.
InsertedIntoScalar ==
    /\ ret.op \in InsertOps
    /\ LET found == find_key_token_index(ret.before, ret.keys, overflow_checks) IN
       /\ IsOk(found)
       /\ found.v + 2 < Len(ret.before)
       /\ At(ret.before, found.v + 2).token_type # "OpeningBrace"

\* C4 as stated: an insert_value or insert_object whose path resolves to a
\* key whose value token is not an OpeningBrace fails with
\* InsertCantInsertIntoValue and leaves the tokens unchanged.
C4_ScalarRejectEveryValue ==
    InsertedIntoScalar =>
      /\ ret.res = Err("InsertCantInsertIntoValue")
      /\ tokens = ret.before

\* C4, amended: the same for insert_object and for insert_value with a value
\* other than an Array; on {"x":1}, insert_object(["x"], "y") fails with
\* InsertCantInsertIntoValue.
C4_ScalarReject ==
    (InsertedIntoScalar /\ ret.value.kind # "Array") =>
      /\ ret.res = Err("InsertCantInsertIntoValue")
      /\ tokens = ret.before

\* insert_object(["x"], ..) on {"x":1} has returned.
C4_Witness ==
    /\ ret.op = "insert_object" /\ ret.keys = <<X>>
    /\ ret.before = lex(Text_scalar)
    /\ InsertedIntoScalar

\* The tokens are `before` with a run that starts with the key spliced in at
\* index 1, and a Separator after the run or not.
SplicedAtRoot(before, after, key) ==
    /\ Len(before) >= 1 /\ Len(after) >= Len(before) + 3
    /\ At(after, 0) = At(before, 0)
    /\ At(after, 1) = Token_new(quoted(key), "Key")
    /\ At(after, 2) = Token_no_lexeme("Assigner")
    /\ SubSeq(after, Len(after) - Len(before) + 2, Len(after))
         = SubSeq(before, 2, Len(before))

\* C5: get([]) fails with NoPathProvided on every document, the empty
\* token sequence included; insert_value and insert_object with an empty
\* path do not fail with NoPathProvided and splice their run in at index 1.
C5_EmptyPath ==
    /\ (ret.op = "get" /\ ret.keys = <<>>) => ret.res = Err("NoPathProvided")
    /\ (ret.op \in InsertOps /\ ret.keys = <<>>) =>
         /\ ~IsErr(ret.res, "NoPathProvided")
         /\ ret.res.tag # "Panic" => SplicedAtRoot(ret.before, tokens, ret.key)

\* An insert with an empty path has put its run, and a Separator, into a
\* document that had entries.
C5_Witness ==
    /\ ret.op = "insert_object" /\ ret.keys = <<>> /\ IsOk(ret.res)
    /\ Len(ret.before) > 2
    /\ Len(tokens) = Len(ret.before) + 5

\* get(["x"]) on {"x":"hello world"} has returned.
GotHello ==
    /\ ret.op = "get" /\ ret.keys = <<X>>
    /\ ret.before = lex(Text_hello)

hello_world == <<"h", "e", "l", "l", "o", " ", "w", "o", "r", "l", "d">>

\* C6: get(["x"]) on the document lexed from {"x":"hello world"} returns
\* String("hello world"): the space is kept and the wrapping quotes of the
\* Value lexeme are not part of the string.
C6_QuotedSpace ==
    GotHello => /\ IsOk(ret.res)
                /\ JsonValue_eq(ret.res.v, JsonString(hello_world))

\* to_string_format on {"a":1,"b":{"c":2}} has returned.
FormattedPretty ==
    /\ ret.op = "to_string_format"
    /\ ret.before = lex(Text_pretty)

\* The lines of a text joined, each line ended by a newline.
RECURSIVE unlines(_)
unlines(lines) ==
    IF lines = <<>> THEN <<>>
    ELSE Head(lines) \o <<"\n">> \o unlines(Tail(lines))

pretty_line_1 == <<"{">>

pretty_line_2_pinned == <<"\t", "\"", "a", "\"", ":", "1", ",">>

pretty_line_2 == <<"\t", "\"", "a", "\"", ":", " ", "1", ",">>

pretty_line_3 == <<"\t", "\"", "b", "\"", ":", " ", "{">>

pretty_line_4 == <<"\t", "\t", "\"", "c", "\"", ":", " ", "2">>

pretty_line_5 == <<"\t", "}">>

pretty_line_6 == <<"}">>

\* C7 as stated: to_string_format on {"a":1,"b":{"c":2}} returns Ok with the
\* six pinned lines, the second being tab "a":1, with nothing after the
\* colon (with or without a newline after the last line).
C7_PrettyPinned ==
    FormattedPretty =>
      /\ IsOk(ret.res)
      /\ LET pinned == unlines(<<pretty_line_1, pretty_line_2_pinned, pretty_line_3,
                                 pretty_line_4, pretty_line_5, pretty_line_6>>)
         IN  ret.res.v \in {pinned, SubSeq(pinned, 1, Len(pinned) - 1)}

\* C7, amended: to_string_format on {"a":1,"b":{"c":2}} returns Ok with six
\* lines, each ended by a newline: {, tab "a": 1, (a space after the colon,
\* as after every colon), tab "b": {, two tabs "c": 2, tab }, and }.
C7_PrettyLiteral ==
    FormattedPretty =>
      /\ IsOk(ret.res)
      /\ ret.res.v = unlines(<<pretty_line_1, pretty_line_2, pretty_line_3,
                               pretty_line_4, pretty_line_5, pretty_line_6>>)

C7_Witness == FormattedPretty /\ IsOk(ret.res) /\ Len(ret.res.v) > 0

ReadsAndInserts == {"get", "insert_value", "insert_object", "to_string_format"}

\* C8: on a document that lex produces from a text, get, insert_value,
\* insert_object and to_string_format return Ok or a JsonError for every
\* path; none of them panics on an index, a slice, an unwrap or a depth
\* counter.  (An Array value, which to_string_force does not implement, is
\* left out.)
C8_NoPanic ==
    (/\ ret.op \in ReadsAndInserts
     /\ ret.value.kind # "Array"
     /\ ret.before = lex(to_string(ret.before)))
    => ret.res.tag # "Panic"

Opening == {"OpeningBrace", "LeftBracket"}

Closing == {"ClosingBrace", "RightBracket"}

\* How many containers are open after each token, braces and brackets alike.
RECURSIVE container_depths(_, _, _)
container_depths(toks, i, depth) ==
    IF i > Len(toks) THEN <<>>
    ELSE LET d == depth + (IF toks[i].token_type \in Opening THEN 1
                           ELSE IF toks[i].token_type \in Closing THEN -1 ELSE 0)
         IN  <<d>> \o container_depths(toks, i + 1, d)

\* The token sequence starts with an OpeningBrace and ends with the
\* ClosingBrace that matches it; a Key is followed by an Assigner and then a
\* Value, an OpeningBrace or a LeftBracket; a Separator stands after the end
\* of an entry and before the start of the next one.
WellFormedDoc(toks) ==
    LET n == Len(toks)
        ds == container_depths(toks, 1, 0)
    IN
    /\ n >= 2
    /\ toks[1].token_type = "OpeningBrace"
    /\ toks[n].token_type = "ClosingBrace"
    /\ \A i \in 1..(n - 1) : ds[i] >= 1
    /\ ds[n] = 0
    /\ \A i \in 1..n :
         /\ toks[i].token_type = "Key" =>
              /\ i + 2 <= n
              /\ toks[i + 1].token_type = "Assigner"
              /\ toks[i + 2].token_type \in {"Value", "OpeningBrace", "LeftBracket"}
         /\ toks[i].token_type = "Separator" =>
              /\ 1 < i /\ i < n
              /\ toks[i - 1].token_type \in {"Value"} \cup Closing
              /\ toks[i + 1].token_type \in {"Key", "Value"} \cup Opening

\* C9: a document that was lexed from well-formed object text, or built
\* with balanced object/object_end calls, and then changed only by inserts
\* that returned Ok, still starts with an OpeningBrace and ends with its
\* matching ClosingBrace, has every Key followed by an Assigner and a Value,
\* OpeningBrace or LeftBracket, and has Separators only between two sibling
\* entries.
C9_WellFormedKept == (phase = "json" /\ wellformed) => WellFormedDoc(tokens)

\* An insert into a well-formed document that had entries returned Ok and
\* put a Separator after its run.
C9_Witness ==
    /\ phase = "json" /\ wellformed
    /\ ret.op = "insert_value" /\ IsOk(ret.res)
    /\ Len(tokens) = Len(ret.before) + 4
    /\ \E i \in 1..Len(tokens) : tokens[i].token_type = "Separator"

\* The index of the ClosingBrace that closes the OpeningBrace at index i
\* (0-based), or the length of the sequence when nothing closes it.
RECURSIVE closing_of(_, _, _)
closing_of(toks, j, open) ==
    IF j >= Len(toks) THEN Len(toks)
    ELSE LET t == At(toks, j).token_type
             now == IF t = "OpeningBrace" THEN open + 1
                    ELSE IF t = "ClosingBrace" THEN open - 1 ELSE open
         IN  IF now = 0 THEN j ELSE closing_of(toks, j + 1, now)

\* The keys at the matched indices form a nesting chain: each one's value is
\* an object and the next one lies inside that object.
NestingChain(toks, matched) ==
    \A n \in 1..(Len(matched) - 1) :
      /\ matched[n] + 2 < Len(toks)
      /\ At(toks, matched[n] + 2).token_type = "OpeningBrace"
      /\ matched[n] + 2 < matched[n + 1]
      /\ matched[n + 1] < closing_of(toks, matched[n] + 2, 0)

\* C10: on a well-formed document, when the resolver returns an index the
\* keys it matched form a nesting chain, each inside the object that is the
\* value of the one before; so get(["a","c"]) on
\* {"a":{"x":1},"b":{"c":2}} fails with InvalidPath.
C10_ChainSound ==
    (wellformed /\ ret.op = "get") =>
      LET scan == find_key_scan(ret.before, ret.keys, overflow_checks) IN
      /\ IsOk(scan.res) => NestingChain(ret.before, scan.matched)
      /\ (ret.before = lex(Text_siblings) /\ ret.keys = <<A, Name(<<"c">>)>>)
           => ret.res = Err("InvalidPath")

\* The text with one plain space put in after its first p characters.
SpacedAt(text, p) == SubSeq(text, 1, p) \o <<" ">> \o SubSeq(text, p + 1, Len(text))

\* The positions between two tokens of a text: outside every quoted string
\* (an even number of quotes before them) and next to a structural character
\* or at an end of the text.
TokenGaps(text) ==
    {p \in 0..Len(text) :
       /\ Cardinality({i \in 1..p : text[i] = "\""}) % 2 = 0
       /\ \/ p = 0 \/ p = Len(text)
          \/ text[p] \in Structural
          \/ text[p + 1] \in Structural}

\* C11: a plain space put between two tokens of a JSON text, outside every
\* quoted string, is dropped: lex returns the same tokens as for the text
\* without the space, and get with the same path returns the same result.
C11_SpacesBetweenTokens ==
    ret.op = "get" =>
      \A text \in WellFormedTexts :
        lex(text) = ret.before =>
          \A p \in TokenGaps(text) :
            /\ lex(SpacedAt(text, p)) = ret.before
            /\ get(lex(SpacedAt(text, p)), ret.keys, overflow_checks) = ret.res

\* The Value token the last insert_value stored: the third token of its run.
StoredValue ==
    At(tokens, insert_index(ret.before, ret.keys, overflow_checks).v + 2)

Contains(text, part) ==
    \E i \in 0..(Len(text) - Len(part)) : SubSeq(text, i + 1, i + Len(part)) = part

\* C12: insert_value(path, k, String(s)) that returns Ok stores a Value token
\* whose lexeme is s wrapped in one pair of double quotes, so that the
\* compact text contains "k":"s"; an Int or a Bool is stored as its plain
\* text, without quotes.
C12_StringWrappedOnInsert ==
    (ret.op = "insert_value" /\ IsOk(ret.res)) =>
      /\ ret.value.kind = "String" =>
           /\ StoredValue = Token_new(quoted(ret.value.v), "Value")
           /\ Contains(to_string(tokens),
                       quoted(ret.key) \o <<":">> \o quoted(ret.value.v))
      /\ ret.value.kind = "Int" =>
           StoredValue = Token_new(i32_to_string(ret.value.v), "Value")
      /\ ret.value.kind = "Bool" =>
           StoredValue = Token_new(IF ret.value.v THEN true_text ELSE false_text, "Value")

\* The entry insert_value(.., key, v) writes, with the Separator that
\* parts it from the entry after it.
EntryRun(key, v) ==
    <<Token_new(quoted(key), "Key"), Token_no_lexeme("Assigner"),
      Token_new(to_string_force(v).v, "Value"), Token_no_lexeme("Separator")>>

\* A second insert_value with the same path and key, after one that left
\* `toks` with its entry at index `at`: it returns Ok, its entry stands right
\* after the OpeningBrace at at - 1 and before every token that was there,
\* the earlier entry included, and get finds the later value.
SecondInsert(toks, keys, key, v, at, checked) ==
    LET second == insert_value(toks, keys, key, v, checked)
        got == get(second.tokens, Append(keys, key), checked)
    IN
    /\ IsOk(second.res)
    /\ 1 <= at /\ at < Len(toks)
    /\ At(toks, at - 1).token_type = "OpeningBrace"
    /\ At(toks, at) = Token_new(quoted(key), "Key")
    /\ second.tokens = SubSeq(toks, 1, at) \o EntryRun(key, v) \o SubSeq(toks, at + 1, Len(toks))
    /\ IsOk(got)
    /\ JsonValue_eq(got.v, parse(to_string_force(v).v))
    /\ v.kind \in {"Int", "Bool"} => JsonValue_eq(got.v, v)

\* The last call was an insert_value that returned Ok on a document that
\* started well-formed and had only Ok inserts.
InsertedValue ==
    /\ phase = "json" /\ wellformed
    /\ ret.op = "insert_value" /\ IsOk(ret.res)

\* C13 as stated: after insert_value(path, k, v1) has returned Ok on a
\* well-formed document, insert_value(path, k, v2) returns Ok for every v2,
\* the container holds both entries with the later one first, the tokens
\* that were there keep their order, and get(path ++ [k]) returns v2.
C13_SecondInsertEveryValue ==
    InsertedValue =>
      \A n \in Values :
        /\ SecondInsert(tokens, ret.keys, ret.key, ValueList[n],
                        insert_index(ret.before, ret.keys, overflow_checks).v,
                        overflow_checks)
        /\ JsonValue_eq(get(insert_value(tokens, ret.keys, ret.key, ValueList[n],
                                         overflow_checks).tokens,
                            Append(ret.keys, ret.key), overflow_checks).v,
                        ValueList[n])

\* C13, amended: the same for every v2 that is not an Array; get returns the
\* value parse reads from v2's text, which is v2 for an Int or a Bool.
C13_SecondInsert ==
    InsertedValue =>
      \A n \in Values :
        ValueList[n].kind # "Array" =>
          SecondInsert(tokens, ret.keys, ret.key, ValueList[n],
                       insert_index(ret.before, ret.keys, overflow_checks).v,
                       overflow_checks)

\* Two insert_value calls with the same path and key have returned Ok, one
\* after the other: the entry of the first stands right after the entry of
\* the second.
C13_Witness ==
    /\ InsertedValue
    /\ LET at == insert_index(ret.before, ret.keys, overflow_checks).v IN
       /\ At(ret.before, at) = Token_new(quoted(ret.key), "Key")
       /\ At(tokens, at) = Token_new(quoted(ret.key), "Key")
       /\ At(tokens, at + 4) = Token_new(quoted(ret.key), "Key")
       /\ tokens = SubSeq(ret.before, 1, at) \o EntryRun(ret.key, ret.value)
                     \o SubSeq(ret.before, at + 1, Len(ret.before))

\* C14: when insert_value or insert_object returns an error (InvalidPath,
\* InvalidJson or InsertCantInsertIntoValue) the token sequence is the one
\* from before the call; the InvalidJson for a run that no token follows,
\* as at the root of the document lexed from {, leaves no run behind.
C14_FailedInsertNoEffect ==
    (ret.op \in InsertOps /\ ret.res.tag = "Err") => tokens = ret.before

\* to_string_format has returned on a well-formed document whose keys and
\* values are texts the lexer yields: quoted strings, with spaces or
\* without, numbers and booleans.
FormattedWellFormed ==
    /\ phase = "json" /\ wellformed /\ lexable
    /\ ret.op = "to_string_format"

\* C15: for a well-formed document (nested objects, arrays of scalars,
\* quoted strings with spaces, numbers, booleans), lexed from text or
\* reached by inserts that returned Ok, to_string_format returns Ok(p), lex(p)
\* is the document's token sequence, and the compact text of lex(p) is the
\* document's compact text.
C15_PrettyReparses ==
    FormattedWellFormed =>
      /\ IsOk(ret.res)
      /\ lex(ret.res.v) = ret.before
      /\ to_string(lex(ret.res.v)) = to_string(ret.before)

\* The formatted document holds a quoted string with a space that an insert
\* put there, next to what it held before.
C15_Witness ==
    /\ FormattedWellFormed /\ IsOk(ret.res)
    /\ HasValueLexeme(ret.before, quoted(<<"a", " ", "b">>))
    /\ Len(ret.before) > 5

====
